---- MODULE Spec2Model ----
(***************************************************************************)
(* Model of GeneralCellposeConverter (src/cellpose_annotation.py): the     *)
(* rasterizer _create_mask, run as a loop over the shape list, and run(),  *)
(* the loop over the image entries of a CVAT XML document that extracts    *)
(* the shapes of an entry, rasterizes them and saves the mask.             *)
(*                                                                         *)
(* Coordinates are integer valued.  A PIL image is a function from the     *)
(* pixel <<x, y>> to its 32-bit value, a numpy array a record of its shape *)
(* <<rows, cols>> and a function from <<row, col>> to its value.  The      *)
(* drawing primitives of PIL are modelled by the closed region they fill,  *)
(* clipped to the image.                                                   *)
(***************************************************************************)
EXTENDS Integers, Sequences, FiniteSets, TLC

VARIABLES
    pc,        \* position of the program
    caller,    \* who called _create_mask: "run" or "direct" ("none" before)
    width,     \* _create_mask argument
    height,    \* _create_mask argument
    lead,      \* the shape list starts with `lead` copies of LeadShape ...
    objects,   \* ... followed by these shapes
    idx,       \* enumerate(objects, start=1) counter
    mask,      \* the accumulating numpy array
    inks,      \* the labels the shapes of `objects` were drawn with so far
    ret,       \* <<m>> once _create_mask returned m, <<>> otherwise
    prev,      \* what the previous direct call returned
    calls,     \* number of direct calls made
    image,     \* <<image_tag>> while run() works on an entry, <<>> otherwise
    files,     \* the save folder: path |-> saved array
    nimages,   \* image entries read so far
    seen,      \* the names of the image entries read so far
    used       \* child elements read so far

vars == <<pc, caller, width, height, lead, objects, idx, mask, inks, ret,
          prev, calls, image, files, nimages, seen, used>>

(***************************************************************************)
(* Bounds of the model and constants of the program.                       *)
(***************************************************************************)
MaxShapes == 2      \* explicit shapes of a direct call
MaxCalls == 2       \* direct calls per behaviour
MaxImages == 2      \* image entries per document
MaxElems == 2       \* child elements per document

Two16 == 65536      \* dtype=np.uint16
LineWidth == 3      \* draw.line(..., width=3)
PointRadius == 1    \* [x-1, y-1, x+1, y+1]

(***************************************************************************)
(* Arithmetic helpers.                                                     *)
(***************************************************************************)
Sq(n) == n * n

RECURSIVE SumSeq(_)
SumSeq(s) == IF s = <<>> THEN 0 ELSE Head(s) + SumSeq(Tail(s))

RECURSIVE Concat(_)
Concat(ss) == IF ss = <<>> THEN <<>> ELSE Head(ss) \o Concat(Tail(ss))

(***************************************************************************)
(* numpy arrays.                                                           *)
(***************************************************************************)
Index(h, w) == (0 .. h - 1) \X (0 .. w - 1)

\* np.empty in place of np.zeros: the array starts with whatever was there
ZerosEmpty(h, w) == [shape |-> <<h, w>>, v |-> [rc \in Index(h, w) |-> 1]]

\* np.zeros((height, width), dtype=np.uint16)
Zeros(h, w) == [shape |-> <<h, w>>, v |-> [rc \in Index(h, w) |-> 0]]

NoArray == Zeros(0, 0)

\* np.array(img, dtype=np.uint16): row r, column c holds pixel (c, r),
\* cast to 16 bits
ToArray(img, w, h) ==
    [shape |-> <<h, w>>,
     v |-> [rc \in Index(h, w) |-> img[<<rc[2], rc[1]>>] % Two16]]

\* mask += layer, on uint16
AddWrapSat(m, a) ==
    [shape |-> m.shape,
     v |-> [rc \in DOMAIN m.v |->
              IF m.v[rc] + a.v[rc] >= Two16 THEN Two16 - 1
              ELSE m.v[rc] + a.v[rc]]]

AddWrapOver(m, a) ==
    [shape |-> m.shape,
     v |-> [rc \in DOMAIN m.v |-> IF a.v[rc] # 0 THEN a.v[rc] ELSE m.v[rc]]]

AddWrap(m, a) ==
    [shape |-> m.shape,
     v |-> [rc \in DOMAIN m.v |-> (m.v[rc] + a.v[rc]) % Two16]]

(***************************************************************************)
(* PIL images and drawing primitives.                                      *)
(***************************************************************************)
\* Image.new('I', (width, height), 0)
ImageNew(w, h) == [p \in (0 .. w - 1) \X (0 .. h - 1) |-> 0]

\* the pixels of the region that lie in the image take the ink
Paint(img, region, ink) ==
    [p \in DOMAIN img |-> IF p \in region THEN ink ELSE img[p]]

InRect(p, x0, y0, x1, y1) ==
    /\ x0 <= p[1] /\ p[1] <= x1
    /\ y0 <= p[2] /\ p[2] <= y1

\* p lies on the closed segment a-b
OnSegment(p, a, b) ==
    /\ (p[1] - a[1]) * (b[2] - a[2]) = (p[2] - a[2]) * (b[1] - a[1])
    /\ InRect(p, IF a[1] < b[1] THEN a[1] ELSE b[1],
                 IF a[2] < b[2] THEN a[2] ELSE b[2],
                 IF a[1] < b[1] THEN b[1] ELSE a[1],
                 IF a[2] < b[2] THEN b[2] ELSE a[2])

\* the ray from p towards +x crosses the edge a-b
Crosses(p, a, b) ==
    /\ (a[2] > p[2]) # (b[2] > p[2])
    /\ IF b[2] > a[2]
       THEN (p[1] - a[1]) * (b[2] - a[2]) < (p[2] - a[2]) * (b[1] - a[1])
       ELSE (p[1] - a[1]) * (b[2] - a[2]) > (p[2] - a[2]) * (b[1] - a[1])

Edge(pts, i) == <<pts[i], pts[(i % Len(pts)) + 1]>>

\* closed polygon through pts, closed automatically
InPolygon(p, pts) ==
    \/ \E i \in 1 .. Len(pts) : OnSegment(p, Edge(pts, i)[1], Edge(pts, i)[2])
    \/ Cardinality({i \in 1 .. Len(pts) :
                      Crosses(p, Edge(pts, i)[1], Edge(pts, i)[2])}) % 2 = 1

\* p lies within wd/2 of the segment a-b, measured across it
InStroke(p, a, b, wd) ==
    LET dx == b[1] - a[1]
        dy == b[2] - a[2]
        len2 == Sq(dx) + Sq(dy)
        along == (p[1] - a[1]) * dx + (p[2] - a[2]) * dy
        across == (p[1] - a[1]) * dy - (p[2] - a[2]) * dx
    IN /\ 0 <= along /\ along <= len2
       /\ 4 * Sq(across) <= Sq(wd) * len2

\* ellipse inscribed in the box x0, y0, x1, y1
InEllipse(p, x0, y0, x1, y1) ==
    /\ InRect(p, x0, y0, x1, y1)
    /\ Sq(2 * p[1] - (x0 + x1)) * Sq(y1 - y0)
         + Sq(2 * p[2] - (y0 + y1)) * Sq(x1 - x0)
       <= Sq(x1 - x0) * Sq(y1 - y0)

DrawPolygon(img, xy, ink) ==
    Paint(img, {p \in DOMAIN img : InPolygon(p, xy)}, ink)

DrawRectangleClamp(img, xy, ink) ==
    LET Clamp(n, hi) == IF n < 0 THEN 0 ELSE IF n > hi THEN hi ELSE n
        mx == IF DOMAIN img = {} THEN 0
              ELSE CHOOSE n \in {p[1] : p \in DOMAIN img} :
                      \A q \in DOMAIN img : q[1] <= n
        my == IF DOMAIN img = {} THEN 0
              ELSE CHOOSE n \in {p[2] : p \in DOMAIN img} :
                      \A q \in DOMAIN img : q[2] <= n
    IN Paint(img, {p \in DOMAIN img :
                      InRect(p, Clamp(xy[1][1], mx), Clamp(xy[1][2], my),
                                Clamp(xy[2][1], mx), Clamp(xy[2][2], my))}, ink)

DrawRectangle(img, xy, ink) ==
    Paint(img, {p \in DOMAIN img :
                  InRect(p, xy[1][1], xy[1][2], xy[2][1], xy[2][2])}, ink)

DrawLine(img, xy, ink, wd) ==
    Paint(img, {p \in DOMAIN img :
                  \E i \in 1 .. Len(xy) - 1 : InStroke(p, xy[i], xy[i + 1], wd)},
          ink)

DrawEllipse(img, b, ink) ==
    Paint(img, {p \in DOMAIN img : InEllipse(p, b[1], b[2], b[3], b[4])}, ink)

(***************************************************************************)
(* Shapes: [type, data].  data is a sequence of coordinate tuples: the     *)
(* point list of a polygon or polyline, the two corners of a box, and for  *)
(* a point or an ellipse the single tuple (x, y) or (x0, y0, x1, y1).      *)
(***************************************************************************)
Shape(t, d) == [type |-> t, data |-> d]

\* the coordinate arity the drawing call (or the unpacking x, y = ...) needs
ArityOK(obj) ==
    CASE obj.type = "polygon" ->
           Len(obj.data) >= 2 /\ \A i \in 1 .. Len(obj.data) : Len(obj.data[i]) = 2
      [] obj.type = "box" ->
           Len(obj.data) = 2 /\ \A i \in 1 .. Len(obj.data) : Len(obj.data[i]) = 2
      [] obj.type = "polyline" ->
           \A i \in 1 .. Len(obj.data) : Len(obj.data[i]) = 2
      [] obj.type = "point" -> Len(obj.data[1]) = 2
      [] obj.type = "ellipse" -> Len(obj.data[1]) = 4
      [] OTHER -> TRUE

\* the bounding box the point is drawn into
PointBox(xy) ==
    <<xy[1] - PointRadius, xy[2] - PointRadius,
      xy[1] + PointRadius, xy[2] + PointRadius>>

\* the if/elif chain of _create_mask
Draw(obj, img, ink) ==
    CASE obj.type = "polygon" -> DrawPolygon(img, obj.data, ink)
      [] obj.type = "box" -> DrawRectangle(img, obj.data, ink)
      [] obj.type = "polyline" -> DrawLine(img, obj.data, ink, LineWidth)
      [] obj.type = "point" -> DrawEllipse(img, PointBox(obj.data[1]), ink)
      [] obj.type = "ellipse" -> DrawEllipse(img, obj.data[1], ink)
      [] OTHER -> img

\* the layer of one shape, as the array added to the mask
Layer(obj, w, h, ink) == ToArray(Draw(obj, ImageNew(w, h), ink), w, h)

(***************************************************************************)
(* Inputs of the direct calls.                                             *)
(***************************************************************************)
PolyA == Shape("polygon", <<<<1, 1>>, <<3, 1>>, <<3, 3>>, <<1, 3>>>>)
BoxA == Shape("box", <<<<0, 0>>, <<1, 1>>>>)
BoxFar == Shape("box", <<<<6, 6>>, <<8, 8>>>>)
LineA == Shape("polyline", <<<<0, 2>>, <<2, 2>>>>)
LineOut == Shape("polyline", <<<<0, -1>>, <<3, -1>>>>)
PointA == Shape("point", <<<<2, 1>>>>)
PointOut == Shape("point", <<<<-1, 0>>>>)
PointFar == Shape("point", <<<<-2, 0>>>>)
EllipseA == Shape("ellipse", <<<<1, 0, 3, 2>>>>)
PointBad == Shape("point", <<<<1, 2, 3>>>>)
PolyBad == Shape("polygon", <<<<1, 1>>, <<3>>, <<3, 3>>>>)

ShapePool ==
    {PolyA, BoxA, BoxFar, LineA, LineOut, PointA, PointOut, PointFar,
     EllipseA, PointBad, PolyBad}

\* the leading run of a long shape list: copies of a box outside every canvas
LeadShape == BoxFar

\* the canvases <<width, height>> of the direct calls and the length of the
\* leading run on each
Dims == {<<4, 4>>, <<3, 2>>, <<0, 2>>}

Leads(d) == IF d = <<4, 4>> THEN {0, 32768, 65535} ELSE {0}

SeqsUpTo(S, n) == UNION {[1 .. k -> S] : k \in 0 .. n}

(***************************************************************************)
(* _create_mask.                                                           *)
(***************************************************************************)
Init ==
    /\ pc = "idle"
    /\ caller = "none"
    /\ width = 0
    /\ height = 0
    /\ lead = 0
    /\ objects = <<>>
    /\ idx = 0
    /\ mask = NoArray
    /\ inks = <<>>
    /\ ret = <<>>
    /\ prev = <<>>
    /\ calls = 0
    /\ image = <<>>
    /\ files = [s \in {} |-> NoArray]
    /\ nimages = 0
    /\ seen = {}
    /\ used = 0

runVars == <<image, files, nimages, seen, used>>

\* converter._create_mask(w, h, objs) called on a new converter
CallCreateMask ==
    /\ pc = "idle"
    /\ calls < MaxCalls
    /\ \E d \in Dims, objs \in SeqsUpTo(ShapePool, MaxShapes) :
        \E n \in Leads(d) :
          /\ width' = d[1]
          /\ height' = d[2]
          /\ lead' = n
          /\ objects' = objs
    /\ pc' = "enter"
    /\ caller' = "direct"
    /\ calls' = calls + 1
    /\ UNCHANGED <<idx, mask, inks, ret, prev, runVars>>

\* the same call made once more on the same converter
CallAgain ==
    /\ pc = "returned"
    /\ calls < MaxCalls
    /\ pc' = "enter"
    /\ prev' = ret
    /\ ret' = <<>>
    /\ calls' = calls + 1
    /\ UNCHANGED <<caller, width, height, lead, objects, idx, mask, inks,
                   runVars>>

CreateMaskEnterKeep ==
    /\ pc = "enter"
    /\ mask' = IF mask.shape = <<height, width>> THEN mask
               ELSE Zeros(height, width)
    /\ idx' = 1
    /\ inks' = <<>>
    /\ pc' = "loop"
    /\ UNCHANGED <<caller, width, height, lead, objects, ret, prev, calls,
                   runVars>>

\* mask = np.zeros((height, width), dtype=np.uint16); enumerate(.., start=1)
CreateMaskEnter ==
    /\ pc = "enter"
    /\ mask' = Zeros(height, width)
    /\ idx' = 1
    /\ inks' = <<>>
    /\ pc' = "loop"
    /\ UNCHANGED <<caller, width, height, lead, objects, ret, prev, calls,
                   runVars>>

\* the first `lead` iterations: every one adds the layer of LeadShape, which
\* is all zero whatever the label because LeadShape is outside the canvas
CreateMaskLead ==
    /\ pc = "loop"
    /\ idx = 1
    /\ lead > 0
    /\ Layer(LeadShape, width, height, idx) = Zeros(height, width)
    /\ mask' = AddWrap(mask, Layer(LeadShape, width, height, idx))
    /\ idx' = lead + 1
    /\ UNCHANGED <<pc, caller, width, height, lead, objects, inks, ret, prev,
                   calls, runVars>>

CreateMaskStepSkip ==
    /\ pc = "loop"
    /\ idx > lead
    /\ idx - lead <= Len(objects)
    /\ LET obj == objects[idx - lead]
       IN mask' = IF ArityOK(obj)
                  THEN AddWrap(mask, Layer(obj, width, height, idx))
                  ELSE mask
    /\ idx' = idx + 1
    /\ inks' = Append(inks, idx)
    /\ UNCHANGED <<pc, caller, width, height, lead, objects, ret, prev, calls,
                   runVars>>

\* the loop ends at the first shape that cannot be drawn
CreateMaskStepPartial ==
    /\ pc = "loop"
    /\ idx > lead
    /\ idx - lead <= Len(objects)
    /\ LET obj == objects[idx - lead]
       IN IF ArityOK(obj)
          THEN /\ mask' = AddWrap(mask, Layer(obj, width, height, idx))
               /\ idx' = idx + 1
               /\ inks' = Append(inks, idx)
               /\ pc' = "loop"
               /\ ret' = ret
          ELSE /\ pc' = IF caller = "run" THEN "save" ELSE "returned"
               /\ ret' = <<mask>>
               /\ UNCHANGED <<mask, idx, inks>>
    /\ UNCHANGED <<caller, width, height, lead, objects, prev, calls, runVars>>

\* one iteration of the loop over the shapes; a drawing call given the wrong
\* number of coordinates raises, and the exception leaves _create_mask
CreateMaskStep ==
    /\ pc = "loop"
    /\ idx > lead
    /\ idx - lead <= Len(objects)
    /\ LET obj == objects[idx - lead]
       IN IF ArityOK(obj)
          THEN /\ mask' = AddWrap(mask, Layer(obj, width, height, idx))
               /\ idx' = idx + 1
               /\ inks' = Append(inks, idx)
               /\ pc' = "loop"
          ELSE /\ pc' = "raised"
               /\ UNCHANGED <<mask, idx, inks>>
    /\ UNCHANGED <<caller, width, height, lead, objects, ret, prev, calls,
                   runVars>>

\* return mask
CreateMaskReturn ==
    /\ pc = "loop"
    /\ idx = lead + Len(objects) + 1
    /\ ret' = <<mask>>
    /\ pc' = IF caller = "run" THEN "save" ELSE "returned"
    /\ UNCHANGED <<caller, width, height, lead, objects, idx, mask, inks,
                   prev, calls, runVars>>

(***************************************************************************)
(* The XML document.  A child element of an image entry is [tag, points,   *)
(* a]: points is the points attribute split at ';' and ',' into fields, a  *)
(* the four numeric attributes of a box (xtl, ytl, xbr, ybr) or an ellipse *)
(* (cx, cy, rx, ry).  A field is numeric text or other text.               *)
(***************************************************************************)
Num(n) == [ok |-> TRUE, v |-> n]
Txt == [ok |-> FALSE, v |-> 0]
Pair(x, y) == <<Num(x), Num(y)>>

Elem(t, pts, a) == [tag |-> t, points |-> pts, a |-> a]

EPoly == Elem("polygon", <<Pair(1, 1), Pair(3, 1), Pair(3, 3), Pair(1, 3)>>, <<>>)
EBox == Elem("box", <<>>, <<0, 0, 1, 1>>)
ELine == Elem("polyline", <<Pair(0, 2), Pair(2, 2)>>, <<>>)
EPoints == Elem("points", <<Pair(2, 1), Pair(0, 3)>>, <<>>)
EEllipse == Elem("ellipse", <<>>, <<2, 1, 1, 1>>)
ETag == Elem("tag", <<>>, <<>>)
EPointsArity == Elem("points", <<Pair(3, 3), <<Num(1), Num(2), Num(3)>>>>, <<>>)
EPointsText == Elem("points", <<<<Num(1), Txt>>>>, <<>>)

ElemPool ==
    {EPoly, EBox, ELine, EPoints, EEllipse, ETag, EPointsArity, EPointsText}

Names ==
    {[stem |-> "a", ext |-> ".png"], [stem |-> "a", ext |-> ".jpg"],
     [stem |-> "b", ext |-> ".png"]}

RunDims == {<<4, 4>>}

ImageTag(nm, w, h, es) == [name |-> nm, width |-> w, height |-> h, elems |-> es]

\* image_tag.findall(tag): the children with that tag, in document order
FindAll(elems, t) == SelectSeq(elems, LAMBDA e : e.tag = t)

\* float(field) raises on text that is no number
ParseRaises(points) ==
    \E i \in 1 .. Len(points) : \E j \in 1 .. Len(points[i]) : ~points[i][j].ok

\* _parse_points: one tuple of floats per ';'-separated item, whatever the
\* number of its ','-separated fields
ParsePoints(points) ==
    [i \in 1 .. Len(points) |-> [j \in 1 .. Len(points[i]) |-> points[i][j].v]]

Polygons(elems) ==
    LET es == FindAll(elems, "polygon")
    IN [i \in 1 .. Len(es) |-> Shape("polygon", ParsePoints(es[i].points))]

Boxes(elems) ==
    LET es == FindAll(elems, "box")
    IN [i \in 1 .. Len(es) |->
          Shape("box", <<<<es[i].a[1], es[i].a[2]>>, <<es[i].a[3], es[i].a[4]>>>>)]

Polylines(elems) ==
    LET es == FindAll(elems, "polyline")
    IN [i \in 1 .. Len(es) |-> Shape("polyline", ParsePoints(es[i].points))]

PointShapesFirst(pts) ==
    [j \in 1 .. (IF Len(pts) > 0 THEN 1 ELSE 0) |-> Shape("point", <<pts[j]>>)]

\* every coordinate pair of a points element becomes a point shape
PointShapes(pts) == [j \in 1 .. Len(pts) |-> Shape("point", <<pts[j]>>)]

Points(elems) ==
    LET es == FindAll(elems, "points")
    IN Concat([i \in 1 .. Len(es) |-> PointShapes(ParsePoints(es[i].points))])

Ellipses(elems) ==
    LET es == FindAll(elems, "ellipse")
    IN [i \in 1 .. Len(es) |->
          Shape("ellipse", <<<<es[i].a[1] - es[i].a[3], es[i].a[2] - es[i].a[4],
                               es[i].a[1] + es[i].a[3], es[i].a[2] + es[i].a[4]>>>>)]

Extract1(e) ==
    Polygons(<<e>>) \o Boxes(<<e>>) \o Polylines(<<e>>) \o Points(<<e>>)
      \o Ellipses(<<e>>)

ExtractRaises(elems) ==
    \E i \in 1 .. Len(elems) :
       /\ elems[i].tag \in {"polygon", "polyline", "points"}
       /\ ParseRaises(elems[i].points)

\* one loop over the children, whatever their tag
ExtractDocOrder(elems) ==
    Concat([i \in 1 .. Len(elems) |-> Extract1(elems[i])])

\* the five extraction loops of run(), in their order
Extract(elems) ==
    Polygons(elems) \o Boxes(elems) \o Polylines(elems) \o Points(elems)
      \o Ellipses(elems)

\* os.path.join(save_folder, os.path.splitext(image_name)[0] + '.npy'):
\* the file is named by the image name without its extension
SavePath(nm) == nm.stem

Store(fs, path, m) ==
    [q \in DOMAIN fs \cup {path} |-> IF q = path THEN m ELSE fs[q]]

(***************************************************************************)
(* run().                                                                  *)
(***************************************************************************)
callVars == <<prev, calls>>

\* converter.run() called on a new converter
RunStart ==
    /\ pc = "idle"
    /\ calls = 0
    /\ pc' = "next_image"
    /\ caller' = "run"
    /\ UNCHANGED <<width, height, lead, objects, idx, mask, inks, ret,
                   callVars, runVars>>

\* the image entries the document may hold next: image names are distinct
Entries ==
    {ImageTag(nm, d[1], d[2], es) :
       nm \in Names \ seen, d \in RunDims,
       es \in SeqsUpTo(ElemPool, MaxElems - used)}

\* the next image entry of the document: its attributes and its shapes
RunExtract ==
    /\ pc = "next_image"
    /\ nimages < MaxImages
    /\ \E tag \in Entries :
          /\ image' = <<tag>>
          /\ seen' = seen \cup {tag.name}
          /\ used' = used + Len(tag.elems)
          /\ IF ExtractRaises(tag.elems)
             THEN /\ pc' = "raised"
                  /\ UNCHANGED <<width, height, objects>>
             ELSE /\ pc' = "enter"
                  /\ width' = tag.width
                  /\ height' = tag.height
                  /\ objects' = Extract(tag.elems)
    /\ nimages' = nimages + 1
    /\ UNCHANGED <<caller, lead, idx, mask, inks, ret, callVars, files>>

\* np.save(npy_path, mask); the locals of the iteration are dropped
RunSave ==
    /\ pc = "save"
    /\ files' = Store(files, SavePath(image[1].name), ret[1])
    /\ pc' = "next_image"
    /\ image' = <<>>
    /\ width' = 0
    /\ height' = 0
    /\ objects' = <<>>
    /\ idx' = 0
    /\ mask' = NoArray
    /\ inks' = <<>>
    /\ ret' = <<>>
    /\ UNCHANGED <<caller, lead, callVars, nimages, seen, used>>

\* no image entry is left
RunFinish ==
    /\ pc = "next_image"
    /\ pc' = "done"
    /\ UNCHANGED <<caller, width, height, lead, objects, idx, mask, inks,
                   ret, callVars, runVars>>

Next ==
    \/ CallCreateMask
    \/ CallAgain
    \/ CreateMaskEnter
    \/ CreateMaskLead
    \/ CreateMaskStep
    \/ CreateMaskReturn
    \/ RunStart
    \/ RunExtract
    \/ RunSave
    \/ RunFinish

Spec == Init /\ [][Next]_vars

(***************************************************************************)
(* What the properties speak of.                                           *)
(***************************************************************************)
Returned == pc \in {"returned", "save"}

\* the shape covers the pixel <<x, y>>
Covers(obj, p) ==
    CASE obj.type = "polygon" -> InPolygon(p, obj.data)
      [] obj.type = "box" ->
           InRect(p, obj.data[1][1], obj.data[1][2], obj.data[2][1], obj.data[2][2])
      [] obj.type = "polyline" ->
           \E i \in 1 .. Len(obj.data) - 1 :
              InStroke(p, obj.data[i], obj.data[i + 1], LineWidth)
      [] obj.type = "point" ->
           InEllipse(p, obj.data[1][1] - PointRadius, obj.data[1][2] - PointRadius,
                        obj.data[1][1] + PointRadius, obj.data[1][2] + PointRadius)
      [] obj.type = "ellipse" ->
           InEllipse(p, obj.data[1][1], obj.data[1][2], obj.data[1][3], obj.data[1][4])
      [] OTHER -> FALSE

\* the label of the i-th explicit shape: its 1-based position in the list
Label(i) == lead + i

\* the sum of the labels of the shapes of the list that cover row rc[1],
\* column rc[2], leaving out the shapes in `skip`
LabelSumBut(rc, skip(_)) ==
    (IF lead > 0 /\ Covers(LeadShape, <<rc[2], rc[1]>>)
     THEN (lead * (lead + 1)) \div 2 ELSE 0)
    + SumSeq([i \in 1 .. Len(objects) |->
                IF ~skip(objects[i]) /\ Covers(objects[i], <<rc[2], rc[1]>>)
                THEN Label(i) ELSE 0])

LabelSum(rc) == LET None(o) == FALSE IN LabelSumBut(rc, None)

\* wrong coordinate arity
Malformed(obj) ==
    CASE obj.type \in {"polygon", "polyline", "box"} ->
           \E i \in 1 .. Len(obj.data) : Len(obj.data[i]) # 2
      [] obj.type = "point" -> Len(obj.data[1]) # 2
      [] obj.type = "ellipse" -> Len(obj.data[1]) # 4
      [] OTHER -> FALSE

\* the coordinates a shape carries
Coords(obj) ==
    IF obj.type = "ellipse"
    THEN {<<obj.data[1][1], obj.data[1][2]>>, <<obj.data[1][3], obj.data[1][4]>>}
    ELSE {obj.data[i] : i \in 1 .. Len(obj.data)}

\* every coordinate lies more than r pixels beyond the same edge of the canvas
Beyond(obj, r) ==
    /\ ~Malformed(obj)
    /\ \/ \A c \in Coords(obj) : c[1] + r < 0
       \/ \A c \in Coords(obj) : c[1] - r > width - 1
       \/ \A c \in Coords(obj) : c[2] + r < 0
       \/ \A c \in Coords(obj) : c[2] - r > height - 1

\* the geometry of the shape lies outside the canvas
OutsideGeometry(obj) == Beyond(obj, 0)

\* how far past its coordinates a shape is drawn
Reach(obj) ==
    CASE obj.type = "point" -> PointRadius
      [] obj.type = "polyline" -> LineWidth \div 2
      [] OTHER -> 0

\* all that is drawn of the shape lies outside the canvas
OutsideDrawn(obj) == Beyond(obj, Reach(obj))

\* the shapes of one child element, the coordinate pairs of a points element
\* one point each
ShapesOfElem(e) ==
    LET xy == [i \in 1 .. Len(e.points) |->
                 [j \in 1 .. Len(e.points[i]) |-> e.points[i][j].v]]
    IN CASE e.tag \in {"polygon", "polyline"} -> <<Shape(e.tag, xy)>>
         [] e.tag = "box" ->
              <<Shape("box", <<<<e.a[1], e.a[2]>>, <<e.a[3], e.a[4]>>>>)>>
         [] e.tag = "points" -> [i \in 1 .. Len(xy) |-> Shape("point", <<xy[i]>>)]
         [] e.tag = "ellipse" ->
              <<Shape("ellipse", <<<<e.a[1] - e.a[3], e.a[2] - e.a[4],
                                     e.a[1] + e.a[3], e.a[2] + e.a[4]>>>>)>>
         [] OTHER -> <<>>

DocumentOrder(elems) == Concat([i \in 1 .. Len(elems) |-> ShapesOfElem(elems[i])])

KindOrder == <<"polygon", "box", "polyline", "points", "ellipse">>

OfKind(elems, t) ==
    Concat([i \in 1 .. Len(elems) |->
              IF elems[i].tag = t THEN ShapesOfElem(elems[i]) ELSE <<>>])

KindThenDocumentOrder(elems) ==
    Concat([k \in 1 .. Len(KindOrder) |-> OfKind(elems, KindOrder[k])])

CountTag(elems, t) == Cardinality({i \in 1 .. Len(elems) : elems[i].tag = t})

CoordinatePairs(elems) ==
    SumSeq([i \in 1 .. Len(elems) |->
              IF elems[i].tag = "points" THEN Len(elems[i].points) ELSE 0])

LabelCount(elems) ==
    CountTag(elems, "polygon") + CountTag(elems, "box")
      + CountTag(elems, "polyline") + CoordinatePairs(elems)
      + CountTag(elems, "ellipse")

InRun == caller = "run" /\ pc \in {"enter", "loop", "save"}

AllZero(m, h, w) ==
    /\ m.shape = <<h, w>>
    /\ DOMAIN m.v = (0 .. h - 1) \X (0 .. w - 1)
    /\ \A rc \in DOMAIN m.v : m.v[rc] = 0

(***************************************************************************)
(* C1: in the mask _create_mask returns, every pixel whose label sum stays *)
(* below 2^16 equals the sum of the labels of the shapes covering it: 0    *)
(* under no shape, the label under one shape, 3 under the shapes 1 and 2.  *)
(***************************************************************************)
C1_AdditiveCompositing ==
    Returned =>
      \A rc \in DOMAIN ret[1].v :
         LET sum == LabelSum(rc) IN sum < Two16 => ret[1].v[rc] = sum

C1_Witness ==
    /\ pc = "returned"
    /\ lead = 0
    /\ Len(objects) = 2
    /\ \E rc \in DOMAIN ret[1].v :
          /\ ret[1].v[rc] = 3
          /\ Covers(objects[1], <<rc[2], rc[1]>>)
          /\ Covers(objects[2], <<rc[2], rc[1]>>)
    /\ \E rc \in DOMAIN ret[1].v : ret[1].v[rc] = 1
    /\ \E rc \in DOMAIN ret[1].v : ret[1].v[rc] = 2
    /\ \E rc \in DOMAIN ret[1].v : ret[1].v[rc] = 0

(***************************************************************************)
(* C2, as claimed: the shape list run() hands to _create_mask lists the    *)
(* shapes of the image entry in the order of the XML document.             *)
(***************************************************************************)
C2_DocumentOrder ==
    InRun => objects = DocumentOrder(image[1].elems)

(***************************************************************************)
(* C2, amended: the list holds the shapes grouped by kind, polygons, then  *)
(* boxes, polylines, points and ellipses, in document order within a kind, *)
(* and the k-th shape of that list is drawn with label k.                  *)
(***************************************************************************)
C2_KindThenDocumentOrder ==
    InRun =>
      /\ objects = KindThenDocumentOrder(image[1].elems)
      /\ lead = 0
      /\ pc # "enter" => \A k \in 1 .. Len(inks) : inks[k] = k

C2_Witness ==
    /\ caller = "run"
    /\ pc = "save"
    /\ Len(inks) = 2
    /\ image[1].elems[1].tag = "box"
    /\ image[1].elems[2].tag = "polygon"
    /\ objects[1].type = "polygon"

(***************************************************************************)
(* C3: called with an empty shape list, _create_mask returns a mask of     *)
(* height rows and width columns of zeros, and run() saves exactly that    *)
(* mask for an image entry without shape elements.                         *)
(***************************************************************************)
C3_EmptyListZeroMask ==
    [][/\ (pc' \in {"returned", "save"} /\ lead' = 0 /\ objects' = <<>>)
          => AllZero(ret'[1], height', width')
       /\ (pc = "save" /\ pc' = "next_image"
             /\ LabelCount(image[1].elems) = 0)
          => /\ SavePath(image[1].name) \in DOMAIN files'
             /\ AllZero(files'[SavePath(image[1].name)],
                        image[1].height, image[1].width)]_vars

C3_Witness ==
    /\ pc = "next_image"
    /\ nimages = 1
    /\ \E q \in DOMAIN files : AllZero(files[q], 4, 4)

(***************************************************************************)
(* C4, as claimed: the mask saved for an image entry is the rasterization  *)
(* of its own shapes, and working on another entry never changes or        *)
(* replaces a mask already saved.                                          *)
(***************************************************************************)
C4_OneMaskPerImage ==
    [][/\ (pc = "save" /\ pc' = "next_image")
          => /\ SavePath(image[1].name) \in DOMAIN files'
             /\ LET m == files'[SavePath(image[1].name)]
                IN /\ m.shape = <<image[1].height, image[1].width>>
                   /\ \A rc \in DOMAIN m.v : m.v[rc] = LabelSum(rc) % Two16
       /\ \A q \in DOMAIN files : q \in DOMAIN files' /\ files'[q] = files[q]]_vars

(***************************************************************************)
(* C5: run() saves a mask only after _create_mask returned for the whole   *)
(* shape list of the entry; once extraction or rasterization raised,       *)
(* nothing is saved.                                                       *)
(***************************************************************************)
C5_NoPartialMaskSaved ==
    [][/\ files' # files
          => /\ pc = "save"
             /\ ret = <<mask>>
             /\ Len(inks) = Len(objects)
             /\ \A i \in 1 .. Len(objects) : ~Malformed(objects[i])
             /\ files' = Store(files, SavePath(image[1].name), mask)
       /\ pc = "raised" => files' = files /\ pc' = "raised"]_vars

C5_Witness ==
    /\ pc = "raised"
    /\ caller = "run"
    /\ Len(inks) >= 1
    /\ \E rc \in DOMAIN mask.v : mask.v[rc] # 0
    /\ SavePath(image[1].name) \notin DOMAIN files

(***************************************************************************)
(* C6: with a shape of wrong coordinate arity in the list, _create_mask    *)
(* ends with an error and returns no mask; it never returns a mask with    *)
(* the shape skipped.                                                      *)
(***************************************************************************)
C6_MalformedShapeRaises ==
    /\ Returned => \A i \in 1 .. Len(objects) : ~Malformed(objects[i])
    /\ (pc = "raised" /\ caller = "direct")
          => /\ ret = <<>>
             /\ Malformed(objects[idx - lead])
             /\ \A i \in 1 .. Len(inks) : ~Malformed(objects[i])

C6_Witness ==
    /\ pc = "raised"
    /\ caller = "direct"
    /\ Len(inks) >= 1
    /\ Malformed(objects[idx - lead])
    /\ objects[idx - lead].type = "point"
    /\ ret = <<>>

(***************************************************************************)
(* C7, as claimed: a shape whose geometry lies entirely outside the canvas *)
(* adds 0 to every pixel of the returned mask, and raises no error.        *)
(***************************************************************************)
C7_OutsideGeometryAddsNothing ==
    /\ Returned =>
         \A rc \in DOMAIN ret[1].v :
            ret[1].v[rc] = LabelSumBut(rc, OutsideGeometry) % Two16
    /\ pc = "raised" /\ caller = "direct" => ~OutsideGeometry(objects[idx - lead])

(***************************************************************************)
(* C7, amended: a shape of which everything drawn lies outside the canvas  *)
(* (its coordinates, widened by the radius 1 of a point and by half the    *)
(* stroke width 3 of a polyline) adds 0 to every pixel of the returned     *)
(* mask, raises no error, and leaves the labels of the others unchanged.   *)
(***************************************************************************)
C7_OutsideDrawnAddsNothing ==
    /\ Returned =>
         \A rc \in DOMAIN ret[1].v :
            ret[1].v[rc] = LabelSumBut(rc, OutsideDrawn) % Two16
    /\ pc = "raised" /\ caller = "direct" => ~OutsideDrawn(objects[idx - lead])

C7_Witness ==
    /\ pc = "returned"
    /\ lead = 0
    /\ Len(objects) = 2
    /\ OutsideDrawn(objects[1])
    /\ \E rc \in DOMAIN ret[1].v : ret[1].v[rc] = 2
    /\ \A rc \in DOMAIN ret[1].v : ret[1].v[rc] \in {0, 2}

(***************************************************************************)
(* C8: the same call of _create_mask made again on the same converter      *)
(* returns the same mask as before.                                        *)
(***************************************************************************)
C8_SameCallSameMask ==
    (pc = "returned" /\ prev # <<>>) => ret = prev

C8_Witness ==
    /\ pc = "returned"
    /\ prev # <<>>
    /\ Len(objects) >= 1
    /\ \E rc \in DOMAIN ret[1].v : ret[1].v[rc] # 0

(***************************************************************************)
(* C9: whatever the number of shapes, _create_mask raises no error on      *)
(* label overflow and does not saturate: every pixel of the returned mask  *)
(* is the sum of the labels of the shapes covering it, modulo 2^16.        *)
(***************************************************************************)
C9_LabelsWrapModulo ==
    /\ Returned =>
         \A rc \in DOMAIN ret[1].v :
            /\ ret[1].v[rc] \in 0 .. Two16 - 1
            /\ ret[1].v[rc] = LabelSum(rc) % Two16
    /\ (pc = "raised" /\ caller = "direct") => Malformed(objects[idx - lead])

C9_Witness ==
    /\ pc = "returned"
    /\ \E rc \in DOMAIN ret[1].v :
          /\ LabelSum(rc) > Two16
          /\ ret[1].v[rc] = LabelSum(rc) - Two16
    /\ \E i \in 1 .. Len(objects) : Label(i) = Two16

(***************************************************************************)
(* C10: run() turns a points element of k coordinate pairs into k point    *)
(* shapes; the labels used for an image are 1 .. n without gap or repeat,  *)
(* n = #polygon + #box + #polyline + #coordinate pairs + #ellipse.         *)
(***************************************************************************)
C10_OneLabelPerPoint ==
    InRun =>
      LET n == LabelCount(image[1].elems)
      IN /\ Len(objects) = n
         /\ Cardinality({i \in 1 .. n : objects[i].type = "point"})
              = CoordinatePairs(image[1].elems)
         /\ pc # "enter" => /\ Len(inks) <= n
                            /\ inks = [k \in 1 .. Len(inks) |-> k]
         /\ pc = "save" => Len(inks) = n

C10_Witness ==
    /\ caller = "run"
    /\ pc = "save"
    /\ \E i \in 1 .. Len(image[1].elems) :
          /\ image[1].elems[i].tag = "points"
          /\ Len(image[1].elems[i].points) = 2
    /\ Len(image[1].elems) = 2
    /\ inks = <<1, 2, 3>>

====
